---- MODULE Spec2Model ----
(***************************************************************************)
(* fix_binary_returns.py: a one-pass, line-by-line rewriter that turns     *)
(* `return val_X(...);` statements inside a fixed line window into         *)
(* `binary_result = val_X(...); goto binary_cleanup;`.                     *)
(*                                                                         *)
(* A line of text is a sequence of tokens.  Every token stands for the     *)
(* characters it spells: " ", "\t" and "\n" are the whitespace characters, *)
(* "x" is a word character, "case", "return", "val_", "goto",              *)
(* "binary_result" and "binary_cleanup" are runs of word characters, and   *)
(* ":", ";", "(", ")", ",", "=", "\"" are themselves.  No keyword can be   *)
(* spelled across a token boundary, so substring tests and the regular     *)
(* expressions act on token sequences exactly as on the strings.           *)
(***************************************************************************)
EXTENDS Integers, Sequences, FiniteSets

VARIABLES file, lines, i, in_target_range, result_lines, pc, run

vars == <<file, lines, i, in_target_range, result_lines, pc, run>>

\* ------------------------------------------------------------------ bounds
\* Number of lines of the input file (the window closes at line 605).
NumLines == 606
\* At most this many lines of the input file differ from the blank line.
MaxSpecial == 2
\* Number of times the tool is run on the same file, one run after the other.
MaxRuns == 2

\* --------------------------------------------------------- program constants
WindowStart == 175
WindowEnd == 605

\* ------------------------------------------------------------ text helpers
SpaceTokens == {" ", "\t", "\n"}
WordTokens == {"x", "case", "return", "val_", "goto", "binary_result", "binary_cleanup"}

\* line[p], or "" past either end of the line
At(line, p) == IF p \in 1..Len(line) THEN line[p] ELSE ""

\* pat in line
Contains(line, pat) ==
    \E k \in 1..(Len(line) - Len(pat) + 1) : SubSeq(line, k, k + Len(pat) - 1) = pat

\* \s* from p: the first position at or after p that holds no whitespace
RECURSIVE SkipSpace(_, _)
SkipSpace(line, p) ==
    IF At(line, p) \in SpaceTokens THEN SkipSpace(line, p + 1) ELSE p

\* \w* from p
RECURSIVE SkipWord(_, _)
SkipWord(line, p) ==
    IF At(line, p) \in WordTokens THEN SkipWord(line, p + 1) ELSE p

\* [^)]* from p
RECURSIVE SkipNotClose(_, _)
SkipNotClose(line, p) ==
    IF p <= Len(line) /\ line[p] # ")" THEN SkipNotClose(line, p + 1) ELSE p

\* --------------------------------------------------------------- classifier
\* 'return val_' (line 22) and 'case ' (line 28), as token sequences
GateKeyword == <<"return", " ", "val_">>
CaseKeyword == <<"case", " ">>

NoMatch == [ok |-> FALSE, indent |-> <<>>, expr |-> <<>>, stop |-> 0]

\* (val_\w+\([^)]+\)); with val_ expected at position s; indent is group 1,
\* expr is group 2, stop is the position of the ';' that ends the match.
CallMatch(line, indent, s) ==
    LET t == SkipWord(line, s + 1)
        u == SkipNotClose(line, t + 1)
    IN  IF /\ At(line, s) = "val_"
           /\ t > s + 1
           /\ At(line, t) = "("
           /\ u > t + 1
           /\ At(line, u) = ")"
           /\ At(line, u + 1) = ";"
        THEN [ok |-> TRUE, indent |-> indent, expr |-> SubSeq(line, s, u), stop |-> u + 1]
        ELSE NoMatch

\* return\s+ with 'return' expected at position r, then the call
ReturnAt(line, indent, r) ==
    LET s == SkipSpace(line, r + 1)
    IN  IF At(line, r) = "return" /\ s > r + 1
        THEN CallMatch(line, indent, s)
        ELSE NoMatch

\* re.match(r'(\s*)(?:case \w+:\s*)?return\s+(val_\w+\([^)]+\));', line)
\* Every quantifier is followed by a token it cannot itself match, so the
\* match, when there is one, is the only one.
ReturnMatch(line) ==
    LET p == SkipSpace(line, 1)
        indent == SubSeq(line, 1, p - 1)
        q == SkipWord(line, p + 2)
    IN  IF /\ At(line, p) = "case"
           /\ At(line, p + 1) = " "
           /\ q > p + 2
           /\ At(line, q) = ":"
        THEN ReturnAt(line, indent, SkipSpace(line, q + 1))
        ELSE ReturnAt(line, indent, p)

\* re.match(r'(\s*)(case \w+):\s*return', line): g1 and g2 are its groups
CaseMatch(line) ==
    LET p == SkipSpace(line, 1)
        q == SkipWord(line, p + 2)
    IN  IF /\ At(line, p) = "case"
           /\ At(line, p + 1) = " "
           /\ q > p + 2
           /\ At(line, q) = ":"
           /\ At(line, SkipSpace(line, q + 1)) = "return"
        THEN [ok |-> TRUE, g1 |-> SubSeq(line, 1, p - 1), g2 |-> SubSeq(line, p, q - 1)]
        ELSE [ok |-> FALSE, g1 |-> <<>>, g2 |-> <<>>]

\* ------------------------------------------------------------------ emitter
Assignment(expr) == <<"binary_result", " ", "=", " ">> \o expr \o <<";", "\n">>
Goto == <<"goto", " ", "binary_cleanup", ";", "\n">>
FourSpaces == <<" ", " ", " ", " ">>

\* Faulty variant of LabelledRewrite: the statements are not indented deeper
\* than the label.
LabelledRewriteFlat(g1, g2, indent, expr) ==
    << g1 \o g2 \o <<":", "\n">>, indent \o Assignment(expr), indent \o Goto >>

\* Faulty variant of LabelledRewrite: the label is split off, the return
\* statement is left as it was.
LabelledRewriteKeepReturn(g1, g2, indent, expr) ==
    << g1 \o g2 \o <<":", "\n">>,
       indent \o FourSpaces \o <<"return", " ">> \o expr \o <<";", "\n">> >>

\* lines 31-33: the label on a line of its own, the rest four spaces deeper
LabelledRewrite(g1, g2, indent, expr) ==
    << g1 \o g2 \o <<":", "\n">>,
       indent \o FourSpaces \o Assignment(expr),
       indent \o FourSpaces \o Goto >>

\* Faulty variant of BareRewrite: the statements are indented four spaces
\* deeper, as they are after a label.
BareRewriteDeeper(indent, expr) ==
    << indent \o FourSpaces \o Assignment(expr), indent \o FourSpaces \o Goto >>

\* Faulty variant of BareRewrite: both statements on one line.
BareRewriteOneLine(indent, expr) ==
    << indent \o <<"binary_result", " ", "=", " ">> \o expr \o <<";", " ">> \o Goto >>

\* lines 37-38: the two statements at the indentation of the return
BareRewrite(indent, expr) ==
    << indent \o Assignment(expr), indent \o Goto >>

\* Faulty variant of Rewrite: the two branches that copy the line are missing.
RewriteDropUnmatched(line) ==
    LET match == ReturnMatch(line)
        case_match == CaseMatch(line)
    IN  IF match.ok
        THEN IF Contains(line, CaseKeyword)
             THEN IF case_match.ok
                  THEN LabelledRewrite(case_match.g1, case_match.g2, match.indent, match.expr)
                  ELSE <<>>
             ELSE BareRewrite(match.indent, match.expr)
        ELSE <<>>

\* Faulty variant of Rewrite: the matched text is replaced in place, so what
\* follows the ';' stays at the end of the last emitted line.
RewriteKeepTail(line) ==
    LET match == ReturnMatch(line)
        case_match == CaseMatch(line)
        tail == SubSeq(line, match.stop + 1, Len(line))
        out == IF case_match.ok
               THEN LabelledRewrite(case_match.g1, case_match.g2, match.indent, match.expr)
               ELSE BareRewrite(match.indent, match.expr)
        last == out[Len(out)]
    IN  IF match.ok /\ (case_match.ok \/ ~Contains(line, CaseKeyword))
        THEN SubSeq(out, 1, Len(out) - 1) \o <<SubSeq(last, 1, Len(last) - 1) \o tail>>
        ELSE <<line>>

\* lines 24-40: what is appended for a line that passed the gate
Rewrite(line) ==
    LET match == ReturnMatch(line)
        case_match == CaseMatch(line)
    IN  IF match.ok
        THEN IF Contains(line, CaseKeyword)
             THEN IF case_match.ok
                  THEN LabelledRewrite(case_match.g1, case_match.g2, match.indent, match.expr)
                  ELSE <<line>>
             ELSE BareRewrite(match.indent, match.expr)
        ELSE <<line>>

\* Faulty variant of Fragment: the window flag is not consulted.
FragmentNoWindow(flag, line) ==
    IF Contains(line, GateKeyword) THEN Rewrite(line) ELSE <<line>>

\* lines 22-42: what is appended for one line, given the window flag
Fragment(flag, line) ==
    IF flag /\ Contains(line, GateKeyword) THEN Rewrite(line) ELSE <<line>>

\* Faulty variant of UpdateRange: the window closes one line late.
UpdateRangeLate(n, flag) ==
    LET opened == IF n = WindowStart THEN TRUE ELSE flag
    IN  IF n > WindowEnd THEN FALSE ELSE opened

\* lines 16-20: the window flag after the two tests made at line n
UpdateRange(n, flag) ==
    LET opened == IF n = WindowStart THEN TRUE ELSE flag
    IN  IF n >= WindowEnd THEN FALSE ELSE opened

\* ----------------------------------------------------------------- file I/O
\* f.writelines(result_lines): the lines, one after the other (computed by
\* halving, which keeps the evaluation shallow on a file of hundreds of lines)
RECURSIVE WriteLines(_)
WriteLines(ls) ==
    IF Len(ls) = 0 THEN <<>>
    ELSE IF Len(ls) = 1 THEN ls[1]
    ELSE LET h == Len(ls) \div 2
         IN  WriteLines(SubSeq(ls, 1, h)) \o WriteLines(SubSeq(ls, h + 1, Len(ls)))

\* the position of the newline that ends the line holding position p, or the
\* last position of the text when no newline follows
RECURSIVE LineEnd(_, _)
LineEnd(text, p) ==
    IF p >= Len(text) \/ text[p] = "\n" THEN p ELSE LineEnd(text, p + 1)

\* the position at which the line holding position p starts
RECURSIVE LineStart(_, _)
LineStart(text, p) ==
    IF p = 1 \/ text[p - 1] = "\n" THEN p ELSE LineStart(text, p - 1)

\* the lines of text[lo..hi], where a line starts at lo and one ends at hi
RECURSIVE ReadRange(_, _, _)
ReadRange(text, lo, hi) ==
    IF lo > hi THEN <<>>
    ELSE IF LineEnd(text, lo) >= hi THEN <<SubSeq(text, lo, hi)>>
    ELSE LET mid == (lo + hi) \div 2
             e == LineEnd(text, mid)
             s == LineStart(text, mid)
         IN  IF e < hi
             THEN ReadRange(text, lo, e) \o ReadRange(text, e + 1, hi)
             ELSE ReadRange(text, lo, s - 1) \o <<SubSeq(text, s, hi)>>

\* f.readlines(): the text cut after every newline; a last line without a
\* newline is kept as it is
ReadLines(text) == ReadRange(text, 1, Len(text))

\* ------------------------------------------------------------------- inputs
Ind2 == <<" ", " ">>
Ind4 == <<" ", " ", " ", " ">>
RetCall == <<"return", " ", "val_", "x", "(">>

\* the empty line
Blank == <<"\n">>
\*   return val_x(x);
BareReturn == Ind2 \o RetCall \o <<"x", ")", ";", "\n">>
\*     case x: return val_x(x, x);
CaseReturn == Ind4 \o <<"case", " ", "x", ":", " ">> \o RetCall \o <<"x", ",", " ", "x", ")", ";", "\n">>
\*   case x:return val_x(x);
CaseReturnTight == Ind2 \o <<"case", " ", "x", ":">> \o RetCall \o <<"x", ")", ";", "\n">>
\* <tab>return<tab>val_x(x);
TabReturn == <<"\t", "return", "\t", "val_", "x", "(", "x", ")", ";", "\n">>
\*   return val_x(x); "x"
TrailingText == Ind2 \o RetCall \o <<"x", ")", ";", " ", "\"", "x", "\"", "\n">>
\*   return val_x(x); "case x"
TrailingCase == Ind2 \o RetCall \o <<"x", ")", ";", " ", "\"", "case", " ", "x", "\"", "\n">>
\*   return val_x("case x");
CaseInArgs == Ind2 \o RetCall \o <<"\"", "case", " ", "x", "\"", ")", ";", "\n">>
\*   return val_x();
EmptyArgs == Ind2 \o RetCall \o <<")", ";", "\n">>
\*   return val_x(x(x), x);
NestedArgs == Ind2 \o RetCall \o <<"x", "(", "x", ")", ",", " ", "x", ")", ";", "\n">>
\*   return val_x(x(");"));
NestedQuoted == Ind2 \o RetCall \o <<"x", "(", "\"", ")", ";", "\"", ")", ")", ";", "\n">>
\*   return val_x(x,
Continued == Ind2 \o RetCall \o <<"x", ",", "\n">>
\*   x = val_x(x);
NoReturn == Ind2 \o <<"x", " ", "=", " ", "val_", "x", "(", "x", ")", ";", "\n">>
\*   x; "return val_x(x);"
QuotedReturn == Ind2 \o <<"x", ";", " ", "\"">> \o RetCall \o <<"x", ")", ";", "\"", "\n">>

\* <tab>return<tab>val_x(x); "return val_x"
TabReturnQuoted ==
    <<"\t", "return", "\t", "val_", "x", "(", "x", ")", ";", " ", "\"", "return", " ", "val_", "x", "\"", "\n">>

InsideLines ==
    { BareReturn, CaseReturn, CaseReturnTight, TabReturn, TabReturnQuoted, TrailingText,
      TrailingCase, CaseInArgs, EmptyArgs, NestedArgs, NestedQuoted, Continued, NoReturn,
      QuotedReturn }

\* The line numbers at which an input file may differ from Blank: the two
\* boundaries of the window and the line before each.
Slots == {WindowStart - 1, WindowStart, WindowEnd - 1, WindowEnd}

SlotLines(n) == IF n = WindowStart THEN InsideLines ELSE {BareReturn, CaseReturn}

Choices ==
    UNION { { sp \in [S -> InsideLines] : \A n \in S : sp[n] \in SlotLines(n) } :
            S \in {T \in SUBSET Slots : Cardinality(T) <= MaxSpecial} }

InputLines(sp) == [n \in 1..NumLines |-> IF n \in DOMAIN sp THEN sp[n] ELSE Blank]

InputFiles == { WriteLines(InputLines(sp)) : sp \in Choices }

\* ------------------------------------------------------------ state machine
\* lines 5-12 of a first run: the file is read, nothing is processed yet
Init ==
    /\ file \in InputFiles
    /\ lines = ReadLines(file)
    /\ i = 0
    /\ in_target_range = FALSE
    /\ result_lines = <<>>
    /\ pc = "loop"
    /\ run = 1

\* lines 14-42: one iteration of the loop, for line i + 1
ProcessLine ==
    /\ pc = "loop"
    /\ i < Len(lines)
    /\ i' = i + 1
    /\ in_target_range' = UpdateRange(i + 1, in_target_range)
    /\ result_lines' = result_lines \o Fragment(in_target_range', lines[i + 1])
    /\ UNCHANGED <<file, lines, pc, run>>

\* lines 44-47: the loop is over, the file is overwritten
WriteBack ==
    /\ pc = "loop"
    /\ i = Len(lines)
    /\ file' = WriteLines(result_lines)
    /\ pc' = "done"
    /\ UNCHANGED <<lines, i, in_target_range, result_lines, run>>

\* lines 5-12 of a later run of the tool, on the file the run before wrote
Rerun ==
    /\ pc = "done"
    /\ run < MaxRuns
    /\ lines' = ReadLines(file)
    /\ i' = 0
    /\ in_target_range' = FALSE
    /\ result_lines' = <<>>
    /\ pc' = "loop"
    /\ run' = run + 1
    /\ UNCHANGED file

Next == ProcessLine \/ WriteBack \/ Rerun

Spec == Init /\ [][Next]_vars

\* ============================================================== properties
\* The window as the specification states it: line numbers 175 to 604.
InWindow(n) == WindowStart <= n /\ n < WindowEnd

\* A step that is one iteration of the loop; it processes line i'.
LoopStep == pc = "loop" /\ pc' = "loop" /\ run' = run /\ i' = i + 1

\* The buffer after a step is the buffer before it with frag appended.
Appends(frag) == result_lines' = result_lines \o frag

\* What the step added to the buffer.
Added == SubSeq(result_lines', Len(result_lines) + 1, Len(result_lines'))

\* The last n lines of the buffer.
LastLines(n) == SubSeq(result_lines, Len(result_lines) - n + 1, Len(result_lines))

\* The leading whitespace of a line.
Indentation(line) == SubSeq(line, 1, SkipSpace(line, 1) - 1)

\* The line starts, after its indentation, with a `case <identifier>:` label.
HasLabel(line) ==
    LET p == SkipSpace(line, 1)
        q == SkipWord(line, p + 2)
    IN  At(line, p) = "case" /\ At(line, p + 1) = " " /\ q > p + 2 /\ At(line, q) = ":"

\* The identifier of that label.
LabelOf(line) ==
    LET p == SkipSpace(line, 1) IN SubSeq(line, p + 2, SkipWord(line, p + 2) - 1)

\* The classifier reports a match: the line holds the gate keyword and the
\* regular expression matches it.
Recognized(line) == Contains(line, GateKeyword) /\ ReturnMatch(line).ok
ShapeA(line) == Recognized(line) /\ ~HasLabel(line)
ShapeB(line) == Recognized(line) /\ HasLabel(line)

\* The call expression the classifier extracts.
Expression(line) == ReturnMatch(line).expr

\* C1: a line whose number is outside the window (below 175, or 605 and
\* above) is appended to the output unchanged, whatever its text is.
C1_OutsidePassThrough ==
    [][LoopStep /\ ~InWindow(i') => Appends(<<lines[i']>>)]_vars

\* C1's case: line 605 is a recognizable return and has been copied.
C1_Witness ==
    /\ run = 1
    /\ i = WindowEnd
    /\ Recognized(lines[i])
    /\ LastLines(1) = <<lines[i]>>

\* C7: after the update made at line i the flag is true exactly when
\* 175 <= i < 605; within a run it opens only at line 175, closes only at
\* line 605 and, once closed, stays closed.
C7_FlagIsWindow ==
    /\ [](i >= 1 => (in_target_range <=> InWindow(i)))
    /\ [][LoopStep =>
            /\ (~in_target_range /\ in_target_range' => i' = WindowStart)
            /\ (in_target_range /\ ~in_target_range' => i' = WindowEnd)
            /\ (i >= WindowEnd => ~in_target_range')]_vars

\* C7's case: the window has been open (a line of it was rewritten) and is
\* closed at line 605.
C7_Witness ==
    /\ run = 1
    /\ i = WindowEnd
    /\ ~in_target_range
    /\ Len(result_lines) > i

\* The window line that has just been processed is line i of the first run.
JustProcessed == run = 1 /\ pc = "loop" /\ i >= 1 /\ InWindow(i)

\* C2 as stated: a bare return in the window becomes the assignment and the
\* goto, each at the captured indentation plus four spaces.
C2_BareDeeperByFour ==
    [][LoopStep /\ InWindow(i') /\ ShapeA(lines[i']) =>
        Appends(<< Indentation(lines[i']) \o FourSpaces \o Assignment(Expression(lines[i'])),
                   Indentation(lines[i']) \o FourSpaces \o Goto >>)]_vars

\* C2 amended: a bare return in the window that does not contain `case `
\* becomes exactly two lines, the assignment and the goto, each at exactly
\* the captured indentation.
C2_BareSameIndent ==
    [][LoopStep /\ InWindow(i') /\ ShapeA(lines[i']) /\ ~Contains(lines[i'], CaseKeyword) =>
        Appends(<< Indentation(lines[i']) \o Assignment(Expression(lines[i'])),
                   Indentation(lines[i']) \o Goto >>)]_vars

\* C2's case: a bare return indented by two spaces has been rewritten into
\* two lines indented by two spaces.
C2_Witness ==
    /\ JustProcessed
    /\ ShapeA(lines[i])
    /\ Indentation(lines[i]) = Ind2
    /\ Len(result_lines) = i + 1
    /\ LastLines(2) = << Ind2 \o Assignment(Expression(lines[i])), Ind2 \o Goto >>

\* C3: a `case <label>: return val_X(...);` line in the window becomes three
\* lines: the indentation and `case <label>:`, then the assignment and the
\* goto, both four spaces deeper than the label line.
C3_LabelledThreeLines ==
    [][LoopStep /\ InWindow(i') /\ ShapeB(lines[i']) =>
        Appends(<< Indentation(lines[i']) \o <<"case", " ">> \o LabelOf(lines[i']) \o <<":", "\n">>,
                   Indentation(lines[i']) \o FourSpaces \o Assignment(Expression(lines[i'])),
                   Indentation(lines[i']) \o FourSpaces \o Goto >>)]_vars

\* C3's case: a labelled return has been rewritten into three lines.
C3_Witness ==
    /\ JustProcessed
    /\ ShapeB(lines[i])
    /\ Len(result_lines) = i + 2
    /\ LastLines(3)[1] = Indentation(lines[i]) \o <<"case", " ">> \o LabelOf(lines[i]) \o <<":", "\n">>
    /\ LastLines(3)[3] = Indentation(lines[i]) \o FourSpaces \o Goto

\* C6: a line in the window that is not recognized (no gate keyword, or the
\* gate keyword but no match) is appended unchanged, as the one line it is.
C6_UnrecognizedPassThrough ==
    [][LoopStep /\ InWindow(i') /\ ~Recognized(lines[i']) => Appends(<<lines[i']>>)]_vars

\* C6's case: a window line that holds the gate keyword and matches neither
\* shape has been copied.
C6_Witness ==
    /\ JustProcessed
    /\ Contains(lines[i], GateKeyword)
    /\ ~ReturnMatch(lines[i]).ok
    /\ LastLines(1) = <<lines[i]>>

\* C8 as stated: every line in the window that the classifier matches is
\* replaced by the emitter's lines, and the original line is not appended.
C8_MatchedIsRewritten ==
    [][LoopStep /\ InWindow(i') /\ Recognized(lines[i']) =>
        /\ ~Appends(<<lines[i']>>)
        /\ Appends(IF HasLabel(lines[i'])
                   THEN LabelledRewrite(Indentation(lines[i']),
                                        <<"case", " ">> \o LabelOf(lines[i']),
                                        Indentation(lines[i']), Expression(lines[i']))
                   ELSE BareRewrite(Indentation(lines[i']), Expression(lines[i'])))]_vars

\* The position of the closing parenthesis that balances the call's opening
\* one, found by counting depth from position p and skipping what stands
\* between double quotes; 0 when the line ends first.
RECURSIVE CloseOf(_, _, _, _)
CloseOf(line, p, depth, quoted) ==
    IF p > Len(line) THEN 0
    ELSE IF line[p] = "\"" THEN CloseOf(line, p + 1, depth, ~quoted)
    ELSE IF quoted THEN CloseOf(line, p + 1, depth, quoted)
    ELSE IF line[p] = "(" THEN CloseOf(line, p + 1, depth + 1, quoted)
    ELSE IF line[p] = ")"
         THEN IF depth = 1 THEN p ELSE CloseOf(line, p + 1, depth - 1, quoted)
    ELSE CloseOf(line, p + 1, depth, quoted)

\* Where the returned call starts: the val_ of the first `return val_`.
CallStart(line) ==
    2 + CHOOSE k \in 1..Len(line) :
            /\ SubSeq(line, k, k + 2) = GateKeyword
            /\ \A j \in 1..(k - 1) : SubSeq(line, j, j + 2) # GateKeyword

\* Where its argument list opens and closes.
CallOpen(line) == SkipWord(line, CallStart(line) + 1)
CallClose(line) == CloseOf(line, CallOpen(line), 0, FALSE)

\* The line returns a call whose argument list holds a nested parenthesis.
NestedCall(line) ==
    /\ Contains(line, GateKeyword)
    /\ At(line, CallOpen(line)) = "("
    /\ CallClose(line) > 0
    /\ \E k \in (CallOpen(line) + 1)..(CallClose(line) - 1) : line[k] = "("

\* The complete call, up to its own closing parenthesis.
CompleteCall(line) == SubSeq(line, CallStart(line), CallClose(line))

\* C5 as stated: for a window line whose returned call has a nested
\* parenthesis, either the line is copied or the complete call is emitted;
\* no expression cut at the first inner `)` is emitted.
C5_NestedWholeOrUntouched ==
    [][LoopStep /\ InWindow(i') /\ NestedCall(lines[i']) =>
        \/ Appends(<<lines[i']>>)
        \/ \E k \in 1..Len(Added) : Contains(Added[k], CompleteCall(lines[i']) \o <<";">>)]_vars

\* C4: a second run on the output of a first run leaves it as it is: its
\* output is its input, line for line.
C4_SecondRunNoOp == (run >= 2 /\ pc = "done") => result_lines = lines

\* C4's case: the first run rewrote a window line, which moved a
\* recognizable return from line 605 to line 606, and the second run is over.
C4_Witness ==
    /\ run = 2
    /\ pc = "done"
    /\ Len(lines) > NumLines
    /\ Recognized(lines[WindowEnd + 1])
    /\ result_lines = lines

\* A line that is indentation followed by the goto, by an assignment to the
\* result variable, or by a case label.
IsGotoLine(line) == SubSeq(line, SkipSpace(line, 1), Len(line)) = Goto
IsAssignmentLine(line) ==
    SubSeq(line, SkipSpace(line, 1), SkipSpace(line, 1) + 3) = <<"binary_result", " ", "=", " ">>
IsLabelLine(line) ==
    HasLabel(line) /\ SkipWord(line, SkipSpace(line, 1) + 2) + 1 = Len(line)

\* The window lines of the input that a run rewrites as a bare return, and
\* those it rewrites as a labelled return.
BareRewrites ==
    { n \in 1..Len(lines) :
        InWindow(n) /\ ShapeA(lines[n]) /\ ~Contains(lines[n], CaseKeyword) }
LabelledRewrites == { n \in 1..Len(lines) : InWindow(n) /\ ShapeB(lines[n]) }

\* C9: every iteration appends one fragment for its line and leaves the rest
\* of the buffer as it was: the line itself, or the two lines of a
\* bare-return rewrite, or the three lines of a labelled rewrite; at the end
\* the buffer holds one line per input line, plus one per bare rewrite, plus
\* two per labelled rewrite.
C9_FragmentsInOrder ==
    /\ [][LoopStep =>
            /\ Appends(Added)
            /\ \/ Added = <<lines[i']>>
               \/ /\ Len(Added) = 2
                  /\ InWindow(i') /\ ShapeA(lines[i'])
                  /\ IsAssignmentLine(Added[1]) /\ IsGotoLine(Added[2])
               \/ /\ Len(Added) = 3
                  /\ InWindow(i') /\ ShapeB(lines[i'])
                  /\ IsLabelLine(Added[1])
                  /\ IsAssignmentLine(Added[2]) /\ IsGotoLine(Added[3])]_vars
    /\ [][run' = run => Len(result_lines') >= Len(result_lines)]_vars
    /\ [](pc = "done" =>
            Len(result_lines) =
                Len(lines) + Cardinality(BareRewrites) + 2 * Cardinality(LabelledRewrites))

\* C9's case: a run is over that rewrote one bare and one labelled return.
C9_Witness ==
    /\ run = 1
    /\ pc = "done"
    /\ Cardinality(BareRewrites) = 1
    /\ Cardinality(LabelledRewrites) = 1
    /\ Len(result_lines) = Len(lines) + 3

\* The line cut right after the ';' that ends the return statement.
CutAfterReturn(line) == SubSeq(line, 1, ReturnMatch(line).stop) \o <<"\n">>

\* The line holds exactly one newline, at its end.
OneNewline(line) ==
    /\ Len(line) >= 1
    /\ \A k \in 1..Len(line) : (line[k] = "\n") <=> (k = Len(line))

\* C10: when a window line is rewritten, every emitted line ends in a single
\* newline and the emitted lines are those of the same line without the text
\* that follows the ';' of the return: none of that text reaches the output.
C10_TailDropped ==
    [][LoopStep /\ InWindow(i') /\ Recognized(lines[i']) /\ ~Appends(<<lines[i']>>) =>
        /\ \A k \in 1..Len(Added) : OneNewline(Added[k])
        /\ Added = Rewrite(CutAfterReturn(lines[i']))]_vars

\* C10's case: a return followed by more text on its line has been
\* rewritten, and the two lines appended hold none of that text.
C10_Witness ==
    /\ JustProcessed
    /\ Recognized(lines[i])
    /\ ReturnMatch(lines[i]).stop + 1 < Len(lines[i])
    /\ Len(result_lines) = i + 1
    /\ IsGotoLine(LastLines(1)[1])
    /\ \A k \in 1..2 : ~Contains(LastLines(2)[k], <<"\"">>)

====
